---- MODULE Spec2Model ----
(***************************************************************************)
(* The overlay application of src/src/main.rs: the Application controller  *)
(* (window registry, drawing context), the WindowState record, the winit   *)
(* callbacks of `impl ApplicationHandler<UserEvent> for Application`, and  *)
(* the timer thread that pushes UserEvent::WakeUp into the loop's queue.   *)
(*                                                                         *)
(* Two specifications:                                                     *)
(*   Spec      the controller alone: its callbacks delivered in any order  *)
(*             while the process is alive;                                 *)
(*   SpecLoop  the callbacks in the order `event_loop.run_app` delivers    *)
(*             them: resumed once, then events and idle checks, then       *)
(*             exiting once exit was requested.                            *)
(***************************************************************************)
EXTENDS Integers, Sequences, FiniteSets, TLC

\* Bounds of the model.
MaxWindows == 2     \* window ids the windowing collaborator hands out
MaxDim == 1         \* largest physical width / height a window reports
MaxQueue == 1       \* WakeUp events pending in the loop's queue

WindowIds == 1..MaxWindows
Dims == 0..MaxDim

VARIABLES
    windows,        \* Application.windows: HashMap<WindowId, WindowState>
    context,        \* Application.context: TRUE = Some(Context), FALSE = None
    exitRequested,  \* the ActiveEventLoop's exit flag, set by event_loop.exit()
    aborted,        \* the process panicked (expect / unwrap)
    loop,           \* where run_app is: Idle, Running, Exiting, Terminated
    wakeups,        \* UserEvent::WakeUp events sent and not yet delivered
    drawFailed,     \* history: the registered ids whose last draw failed
    released,       \* history: registry size at each Some -> None of context
    removed,        \* history: the ids the last callback removed from the registry
    exitSizes,      \* history: the registry sizes at which exit was requested
    scenario,       \* history: progress along construct/resume/close/idle/exit
    call,           \* history: the callback delivered last and its inputs
    pre,            \* history: controller state when that callback was entered
    done            \* history: what that callback did

vars == <<windows, context, exitRequested, aborted, loop, wakeups, drawFailed,
          released, removed, exitSizes, scenario, call, pre, done>>

-----------------------------------------------------------------------------
(* Inputs: events, and what the external collaborators answer.             *)

NoEvent == [kind |-> "None", arg |-> ""]

WindowEvents ==
    { [kind |-> "Focused", arg |-> "true"],
      [kind |-> "Focused", arg |-> "false"],
      [kind |-> "RedrawRequested", arg |-> ""],
      [kind |-> "CloseRequested", arg |-> ""],
      [kind |-> "MouseWheel", arg |-> "LineDelta"],
      [kind |-> "MouseWheel", arg |-> "PixelDelta"],
      [kind |-> "KeyboardInput", arg |-> "synthetic"],
      [kind |-> "KeyboardInput", arg |-> "real"],
      [kind |-> "Other", arg |-> ""] }

\* What the windowing and surface libraries answer during one callback.
NoEnv ==
    [create |-> TRUE, hittest |-> TRUE, surface |-> TRUE, width |-> 1,
     height |-> 1, resize |-> TRUE, id |-> 0, buffer |-> TRUE, present |-> TRUE]

\* A failed creation yields no window, hence no id (0) and no size to report;
\* an answer that is never asked for keeps its default.
CreateEnvs ==
    { e \in { [NoEnv EXCEPT !.create = c, !.hittest = h, !.surface = s,
                            !.width = w, !.height = ht, !.resize = r, !.id = i] :
                c \in BOOLEAN, h \in BOOLEAN, s \in BOOLEAN, w \in Dims,
                ht \in Dims, r \in BOOLEAN, i \in 0..MaxWindows } :
        /\ e.create <=> e.id # 0
        /\ ~e.create => (e.hittest /\ e.width = 1 /\ e.height = 1)
        /\ (~e.create \/ ~e.hittest) => e.surface
        /\ (~e.create \/ ~e.hittest \/ ~e.surface
               \/ e.width = 0 \/ e.height = 0) => e.resize }

DrawEnvs ==
    { [NoEnv EXCEPT !.buffer = b, !.present = p] : b \in BOOLEAN, p \in BOOLEAN }

NoState == [window |-> 0, surface |-> 0]

\* What a callback did, before it did anything.
Nothing ==
    [found |-> FALSE, create |-> "none", newId |-> 0, native |-> FALSE,
     size |-> <<>>, resize |-> "none", exit |-> FALSE, draw |-> <<>>,
     drawRes |-> "none", log |-> "none", drops |-> <<>>]

-----------------------------------------------------------------------------
(* Application::new                                                        *)

Application_new ==
    /\ windows = <<>>
    /\ context = TRUE
    /\ exitRequested = FALSE
    /\ aborted = FALSE

-----------------------------------------------------------------------------
(* WindowState                                                             *)

\* app.context.as_ref().unwrap() panics on None.
context_unwrap_skipped == FALSE

context_unwrap_panics == ~context

\* Only the width is tested.
size_is_valid_width_only(width, height) == width # 0

\* (NonZeroU32::new(width), NonZeroU32::new(height)) matches (Some, Some).
size_is_valid(width, height) == width # 0 /\ height # 0

\* What is released, in order, when the values named in `order` are dropped one
\* after the other. `strong` counts the Arc<Window> references alive: each value
\* holds one, and the window itself goes with the last of them.
RECURSIVE Release(_, _, _)
Release(order, strong, log) ==
    IF order = <<>>
    THEN log
    ELSE Release(Tail(order), strong - 1,
                 log \o (IF Head(order) = "surface" THEN <<"surface">> ELSE <<>>)
                     \o (IF strong - 1 = 0 THEN <<"window">> ELSE <<>>))

Reverse(seq) == [i \in 1..Len(seq) |-> seq[Len(seq) + 1 - i]]

\* The fields of struct WindowState, in declaration order.
WindowState_fields == <<"surface", "window">>

\* The window is declared first and the surface only borrows its handle.
drop_WindowState_handle_first == Release(<<"window", "surface">>, 1, <<>>)

\* Dropping a WindowState: its fields in declaration order; the surface holds
\* the Arc::clone of the window.
drop_WindowState == Release(WindowState_fields, 2, <<>>)

\* The locals of WindowState::new, in declaration order.
WindowState_new_locals == <<"window", "surface">>

\* An early return drops the locals in reverse declaration order.
drop_locals == Release(Reverse(WindowState_new_locals), 2, <<>>)

\* The resize error is propagated with `?`.
after_resize_propagated(env) == IF env.resize THEN "Ok" ELSE "ErrResize"

\* surface.resize(width, height).map_err(..); the result is dropped.
after_resize(env) == "Ok"

\* The missing context is reported as an error of the surface.
WindowState_new_context_err(env) ==
    IF ~context \/ ~env.surface
    THEN [res |-> "ErrSurface", size |-> <<>>, resize |-> "none", state |-> NoState,
          drops |-> <<"window">>]
    ELSE IF ~size_is_valid(env.width, env.height)
    THEN [res |-> "ErrSize", size |-> <<env.width, env.height>>,
          resize |-> "none", state |-> NoState, drops |-> drop_locals]
    ELSE [res |-> "Ok", size |-> <<env.width, env.height>>,
          resize |-> IF env.resize THEN "Ok" ELSE "Err",
          state |-> [window |-> env.id, surface |-> env.id], drops |-> <<>>]

\* WindowState::new: res is Ok, an Err kind, or the panic that ended it.
WindowState_new(env) ==
    IF context_unwrap_panics
    THEN [res |-> "PanicContext", size |-> <<>>, resize |-> "none", state |-> NoState,
          drops |-> <<"window">>]
    ELSE IF ~env.surface
    THEN [res |-> "ErrSurface", size |-> <<>>, resize |-> "none", state |-> NoState,
          drops |-> <<"window">>]
    ELSE IF ~size_is_valid(env.width, env.height)
    THEN [res |-> "ErrSize", size |-> <<env.width, env.height>>,
          resize |-> "none", state |-> NoState, drops |-> drop_locals]
    ELSE IF after_resize(env) # "Ok"
    THEN [res |-> after_resize(env), size |-> <<env.width, env.height>>,
          resize |-> "Err", state |-> NoState, drops |-> drop_locals]
    ELSE [res |-> "Ok", size |-> <<env.width, env.height>>,
          resize |-> IF env.resize THEN "Ok" ELSE "Err",
          state |-> [window |-> env.id, surface |-> env.id], drops |-> <<>>]

\* The window is told of the presentation before the buffer is acquired.
draw_notifies_first(env) ==
    IF ~env.buffer
    THEN [steps |-> <<"pre_present_notify", "buffer_mut">>, res |-> "ErrBuffer"]
    ELSE IF ~env.present
    THEN [steps |-> <<"pre_present_notify", "buffer_mut", "present">>,
          res |-> "ErrPresent"]
    ELSE [steps |-> <<"pre_present_notify", "buffer_mut", "present">>,
          res |-> "Ok"]

\* WindowState::draw: the steps taken, in order, and the result.
draw(env) ==
    IF ~env.buffer
    THEN [steps |-> <<"buffer_mut">>, res |-> "ErrBuffer"]
    ELSE IF ~env.present
    THEN [steps |-> <<"buffer_mut", "pre_present_notify", "present">>,
          res |-> "ErrPresent"]
    ELSE [steps |-> <<"buffer_mut", "pre_present_notify", "present">>,
          res |-> "Ok"]

-----------------------------------------------------------------------------
(* The registry: HashMap<WindowId, WindowState>                            *)

\* The insert is forgotten.
registry_insert_forgotten(reg, id, state) == reg

\* self.windows.insert(window_id, window_state)
registry_insert(reg, id, state) ==
    [k \in (DOMAIN reg) \cup {id} |-> IF k = id THEN state ELSE reg[k]]

\* Every record is removed, as by self.windows.clear().
registry_remove_all(reg, id) == <<>>

\* self.windows.remove(&window_id)
registry_remove(reg, id) ==
    [k \in (DOMAIN reg) \ {id} |-> reg[k]]

-----------------------------------------------------------------------------
(* Application::create_window                                              *)

create_window(env) ==
    IF ~env.create
    THEN [res |-> "ErrOs", native |-> FALSE, size |-> <<>>, resize |-> "none",
          id |-> 0, windows |-> windows, drops |-> <<>>]
    ELSE IF ~env.hittest
    THEN [res |-> "PanicHitTest", native |-> TRUE, size |-> <<>>,
          resize |-> "none", id |-> 0, windows |-> windows, drops |-> <<"window">>]
    ELSE LET ws == WindowState_new(env) IN
         IF ws.res # "Ok"
         THEN [res |-> ws.res, native |-> TRUE, size |-> ws.size,
               resize |-> ws.resize, id |-> 0, windows |-> windows,
               drops |-> ws.drops]
         ELSE [res |-> "Ok", native |-> TRUE, size |-> ws.size,
               resize |-> ws.resize, id |-> ws.state.window,
               windows |-> registry_insert(windows, ws.state.window, ws.state),
               drops |-> ws.drops]

-----------------------------------------------------------------------------
(* impl ApplicationHandler<UserEvent> for Application                      *)

Frame == UNCHANGED <<windows, context, exitRequested, aborted, drawFailed, released>>

\* The wake-up asks the first window for a redraw: it panics without a window.
user_event_first_window ==
    /\ aborted' = (DOMAIN windows = {})
    /\ UNCHANGED <<windows, context, exitRequested, drawFailed, released>>
    /\ done' = [Nothing EXCEPT !.log = "info"]

user_event ==
    /\ Frame
    /\ done' = [Nothing EXCEPT !.log = "info"]

device_event ==
    /\ Frame
    /\ done' = [Nothing EXCEPT !.log = "info"]

\* The lookup is an unwrap: an unknown id panics.
window_event_absent_unwrap ==
    /\ aborted' = TRUE
    /\ UNCHANGED <<windows, context, exitRequested, drawFailed, released>>
    /\ done' = Nothing

\* None => return
window_event_absent ==
    /\ Frame
    /\ done' = Nothing

on_focused ==
    /\ Frame
    /\ done' = [Nothing EXCEPT !.found = TRUE, !.log = "info"]

\* window.draw().expect(..): a failed draw panics.
on_redraw_requested_expect(window_id, env) ==
    LET d == draw(env) IN
    /\ aborted' = (d.res # "Ok")
    /\ drawFailed' = IF d.res = "Ok" THEN drawFailed \ {window_id}
                     ELSE drawFailed \cup {window_id}
    /\ UNCHANGED <<windows, context, exitRequested, released>>
    /\ done' = [Nothing EXCEPT !.found = TRUE, !.draw = d.steps, !.drawRes = d.res]

\* A window whose draw failed is dropped from the registry.
on_redraw_requested_drops(window_id, env) ==
    LET d == draw(env) IN
    /\ windows' = IF d.res = "Ok" THEN windows ELSE registry_remove(windows, window_id)
    /\ drawFailed' = drawFailed \ {window_id}
    /\ UNCHANGED <<context, exitRequested, aborted, released>>
    /\ done' = [Nothing EXCEPT !.found = TRUE, !.draw = d.steps, !.drawRes = d.res,
                               !.log = IF d.res = "Ok" THEN "none" ELSE "error"]

\* if let Err(err) = window.draw() { error!(..) }
on_redraw_requested(window_id, env) ==
    LET d == draw(env) IN
    /\ drawFailed' = IF d.res = "Ok" THEN drawFailed \ {window_id}
                     ELSE drawFailed \cup {window_id}
    /\ UNCHANGED <<windows, context, exitRequested, aborted, released>>
    /\ done' = [Nothing EXCEPT !.found = TRUE, !.draw = d.steps, !.drawRes = d.res,
                               !.log = IF d.res = "Ok" THEN "none" ELSE "error"]

\* The close is logged and the record kept.
on_close_requested_kept(window_id) ==
    /\ Frame
    /\ done' = [Nothing EXCEPT !.found = TRUE, !.log = "info"]

\* The close also asks the loop to exit.
on_close_requested_exits(window_id) ==
    /\ windows' = registry_remove(windows, window_id)
    /\ drawFailed' = drawFailed \ {window_id}
    /\ exitRequested' = TRUE
    /\ UNCHANGED <<context, aborted, released>>
    /\ done' = [Nothing EXCEPT !.found = TRUE, !.exit = TRUE, !.log = "info",
                               !.drops = drop_WindowState]

on_close_requested(window_id) ==
    /\ windows' = registry_remove(windows, window_id)
    /\ drawFailed' = drawFailed \ {window_id}
    /\ UNCHANGED <<context, exitRequested, aborted, released>>
    /\ done' = [Nothing EXCEPT !.found = TRUE, !.log = "info",
                               !.drops = drop_WindowState]

on_mouse_wheel ==
    /\ Frame
    /\ done' = [Nothing EXCEPT !.found = TRUE, !.log = "info"]

\* KeyboardInput { is_synthetic: false, .. }; a synthetic one falls to `_ => ()`.
on_keyboard_input(event) ==
    /\ Frame
    /\ done' = [Nothing EXCEPT !.found = TRUE,
                               !.log = IF event.arg = "real" THEN "info" ELSE "none"]

on_other ==
    /\ Frame
    /\ done' = [Nothing EXCEPT !.found = TRUE]

window_event(window_id, event, env) ==
    IF window_id \notin DOMAIN windows
    THEN window_event_absent
    ELSE CASE event.kind = "Focused" -> on_focused
           [] event.kind = "RedrawRequested" -> on_redraw_requested(window_id, env)
           [] event.kind = "CloseRequested" -> on_close_requested(window_id)
           [] event.kind = "MouseWheel" -> on_mouse_wheel
           [] event.kind = "KeyboardInput" -> on_keyboard_input(event)
           [] OTHER -> on_other

\* A failed creation is logged and the loop goes on.
resumed_logs_error(env) ==
    LET r == create_window(env) IN
    /\ windows' = r.windows
    /\ aborted' = (r.res \in {"PanicHitTest", "PanicContext"})
    /\ drawFailed' = drawFailed
    /\ UNCHANGED <<context, exitRequested, released>>
    /\ done' = [Nothing EXCEPT !.create = r.res, !.newId = r.id,
                               !.native = r.native, !.size = r.size,
                               !.resize = r.resize, !.drops = r.drops,
                               !.log = IF r.res = "Ok" THEN "info" ELSE "error"]

\* dump_monitors only logs; then
\* self.create_window(event_loop, None).expect("failed to create initial window"):
\* an Err panics here, a panic inside create_window has already ended the process.
resumed(env) ==
    LET r == create_window(env) IN
    /\ windows' = r.windows
    /\ aborted' = (r.res # "Ok")
    /\ drawFailed' = drawFailed
    /\ UNCHANGED <<context, exitRequested, released>>
    /\ done' = [Nothing EXCEPT !.create = r.res, !.newId = r.id,
                               !.native = r.native, !.size = r.size,
                               !.resize = r.resize, !.drops = r.drops,
                               !.log = "info"]

\* Exit is never requested.
should_exit_never == FALSE

\* Exit is requested on every idle check.
should_exit_always == TRUE

\* Exit is requested while windows remain.
should_exit_inverted == DOMAIN windows # {}

\* self.windows.is_empty()
should_exit == DOMAIN windows = {}

about_to_wait ==
    /\ exitRequested' = (exitRequested \/ should_exit)
    /\ UNCHANGED <<windows, context, aborted, drawFailed, released>>
    /\ done' = [Nothing EXCEPT !.exit = should_exit,
                               !.log = IF should_exit THEN "info" ELSE "none"]

\* The context is kept.
exiting_keeps_context ==
    /\ Frame
    /\ done' = Nothing

\* self.context = None
exiting ==
    /\ context' = FALSE
    /\ released' = IF context
                   THEN Append(released, Cardinality(DOMAIN windows))
                   ELSE released
    /\ UNCHANGED <<windows, exitRequested, aborted, drawFailed>>
    /\ done' = Nothing

-----------------------------------------------------------------------------
(* The loop driver (event_loop.run_app) and the timer thread               *)

\* Progress along: construct, resume, close the single window, idle, exit.
ScenarioStep(op, id, ev) ==
    IF scenario = "constructed" /\ op = "resumed" THEN "resumed"
    ELSE IF /\ scenario = "resumed" /\ op = "window_event"
            /\ ev.kind = "CloseRequested" /\ id \in DOMAIN windows
    THEN "closed"
    ELSE IF scenario = "closed" /\ op = "about_to_wait" THEN "idle"
    ELSE IF scenario = "idle" /\ op = "exiting" THEN "exited"
    ELSE "off"

\* The bookkeeping of one delivered callback.
Deliver(op, id, ev, env) ==
    /\ call' = [op |-> op, id |-> id, ev |-> ev, env |-> env]
    /\ pre' = [windows |-> windows, context |-> context,
               exitRequested |-> exitRequested, drawFailed |-> drawFailed,
               removed |-> removed, woken |-> (call.op = "user_event")]
    /\ removed' = (DOMAIN windows) \ (DOMAIN windows')
    /\ exitSizes' = IF done'.exit \/ (exitRequested' /\ ~exitRequested)
                    THEN exitSizes \cup {Cardinality(DOMAIN windows)}
                    ELSE exitSizes
    /\ scenario' = ScenarioStep(op, id, ev)
    /\ loop' = IF op = "resumed" /\ loop = "Idle" THEN "Running"
               ELSE IF op = "about_to_wait" /\ exitRequested' /\ loop # "Terminated"
               THEN "Exiting"
               ELSE IF op = "exiting" THEN "Terminated"
               ELSE loop

\* The window ids the collaborator may hand out: those of no live window.
FreeIds == WindowIds \ DOMAIN windows

DoResumed ==
    \E env \in CreateEnvs :
        /\ env.create => env.id \in FreeIds
        /\ resumed(env)
        /\ Deliver("resumed", 0, NoEvent, env)
        /\ UNCHANGED wakeups

DoWindowEvent ==
    \E id \in WindowIds, ev \in WindowEvents, env \in DrawEnvs :
        /\ (ev.kind # "RedrawRequested" \/ id \notin DOMAIN windows) => env = NoEnv
        /\ window_event(id, ev, env)
        /\ Deliver("window_event", id, ev, env)
        /\ UNCHANGED wakeups

DoUserEvent ==
    /\ wakeups > 0
    /\ wakeups' = wakeups - 1
    /\ user_event
    /\ Deliver("user_event", 0, NoEvent, NoEnv)

DoDeviceEvent ==
    /\ device_event
    /\ Deliver("device_event", 0, NoEvent, NoEnv)
    /\ UNCHANGED wakeups

DoAboutToWait ==
    /\ about_to_wait
    /\ Deliver("about_to_wait", 0, NoEvent, NoEnv)
    /\ UNCHANGED wakeups

DoExiting ==
    /\ exiting
    /\ Deliver("exiting", 0, NoEvent, NoEnv)
    /\ UNCHANGED wakeups

\* The timer thread: `let _ = proxy.send_event(UserEvent::WakeUp)` every second.
\* The send fails, and is ignored, once the loop has stopped.
TimerSend ==
    /\ ~aborted
    /\ loop # "Terminated"
    /\ wakeups < MaxQueue
    /\ wakeups' = wakeups + 1
    /\ UNCHANGED <<windows, context, exitRequested, aborted, loop, drawFailed,
                   released, removed, exitSizes, scenario, call, pre, done>>

Init ==
    /\ Application_new
    /\ loop = "Idle"
    /\ wakeups = 0
    /\ drawFailed = {}
    /\ released = <<>>
    /\ scenario = "constructed"
    /\ call = [op |-> "new", id |-> 0, ev |-> NoEvent, env |-> NoEnv]
    /\ removed = {}
    /\ exitSizes = {}
    /\ pre = [windows |-> <<>>, context |-> TRUE, exitRequested |-> FALSE,
              drawFailed |-> {}, removed |-> {}, woken |-> FALSE]
    /\ done = Nothing

\* The controller alone: any callback, in any order, while the process lives.
AnyResumed == ~aborted /\ DoResumed
AnyWindowEvent == ~aborted /\ DoWindowEvent
AnyUserEvent == ~aborted /\ DoUserEvent
AnyDeviceEvent == ~aborted /\ DoDeviceEvent
AnyAboutToWait == ~aborted /\ DoAboutToWait
AnyExiting == ~aborted /\ DoExiting

Next ==
    \/ AnyResumed
    \/ AnyWindowEvent
    \/ AnyUserEvent
    \/ AnyDeviceEvent
    \/ AnyAboutToWait
    \/ AnyExiting
    \/ TimerSend

Spec == Init /\ [][Next]_vars

\* The callbacks in run_app's order.
LoopResumed == ~aborted /\ loop = "Idle" /\ DoResumed
LoopWindowEvent == ~aborted /\ loop = "Running" /\ DoWindowEvent
LoopUserEvent == ~aborted /\ loop = "Running" /\ DoUserEvent
LoopDeviceEvent == ~aborted /\ loop = "Running" /\ DoDeviceEvent
LoopAboutToWait == ~aborted /\ loop = "Running" /\ DoAboutToWait
LoopExiting == ~aborted /\ loop = "Exiting" /\ DoExiting

NextLoop ==
    \/ LoopResumed
    \/ LoopWindowEvent
    \/ LoopUserEvent
    \/ LoopDeviceEvent
    \/ LoopAboutToWait
    \/ LoopExiting
    \/ TimerSend

SpecLoop == Init /\ [][NextLoop]_vars

\* run_app runs the idle check after every pass over the pending events, and
\* calls exiting once exit was requested.
SpecFair ==
    /\ SpecLoop
    /\ WF_vars(LoopAboutToWait)
    /\ WF_vars(LoopExiting)

-----------------------------------------------------------------------------
(* Properties                                                              *)

ErrKinds == {"ErrOs", "ErrSurface", "ErrSize"}

IsWindowEvent(kind) == call.op = "window_event" /\ call.ev.kind = kind

ControllerUntouched ==
    /\ windows = pre.windows
    /\ context = pre.context
    /\ exitRequested = pre.exitRequested
    /\ ~aborted

\* C1: a window event of any kind for an id that is not a key of the registry
\* returns without failing and leaves the registry, the drawing context and the
\* loop's exit-requested status exactly as they were.
C1_UnknownIdIsNoOp ==
    (call.op = "window_event" /\ call.id \notin DOMAIN pre.windows)
        => ControllerUntouched

\* A close-requested event for an unknown id arrived while another window was
\* registered.
C1_Witness ==
    /\ IsWindowEvent("CloseRequested")
    /\ call.id \notin DOMAIN pre.windows
    /\ DOMAIN pre.windows # {}
    /\ ~done.found

\* C2: whenever create_window returns successfully, the registry afterwards is
\* the registry before plus exactly one new entry, keyed by the returned id;
\* every earlier entry is still present and unchanged.
C2_CreateAddsExactlyOne ==
    (call.op = "resumed" /\ done.create = "Ok") =>
        /\ done.newId \notin DOMAIN pre.windows
        /\ DOMAIN windows = (DOMAIN pre.windows) \cup {done.newId}
        /\ windows[done.newId].window = done.newId
        /\ \A k \in DOMAIN pre.windows : windows[k] = pre.windows[k]

\* A second window was created while a first one was registered.
C2_Witness ==
    /\ call.op = "resumed"
    /\ done.create = "Ok"
    /\ DOMAIN pre.windows # {}
    /\ Cardinality(DOMAIN windows) = 2

\* C3: after a close-requested event for a registered id W the registry no
\* longer contains W, and a second close-requested event for the same W changes
\* nothing.
C3_CloseRemovesAndIsIdempotent ==
    IsWindowEvent("CloseRequested") =>
        /\ call.id \notin DOMAIN windows
        /\ call.id \in DOMAIN pre.windows =>
               /\ DOMAIN windows = (DOMAIN pre.windows) \ {call.id}
               /\ \A k \in DOMAIN windows : windows[k] = pre.windows[k]
        /\ call.id \notin DOMAIN pre.windows => ControllerUntouched

\* A close-requested event for W directly after the close-requested event that
\* removed W.
C3_Witness ==
    /\ IsWindowEvent("CloseRequested")
    /\ call.id \in pre.removed
    /\ call.id \notin DOMAIN windows

\* C4: every idle check requests loop termination if and only if the registry
\* is empty at the moment of that check.
C4_IdleCheckExitIffEmpty ==
    call.op = "about_to_wait" =>
        /\ done.exit <=> (DOMAIN pre.windows = {})
        /\ exitRequested <=> (pre.exitRequested \/ DOMAIN pre.windows = {})

\* An idle check ran with a window registered and requested nothing.
C4_Witness ==
    /\ call.op = "about_to_wait"
    /\ DOMAIN pre.windows # {}
    /\ ~done.exit
    /\ ~exitRequested

\* C5: when the newly created window reports a zero physical width or height,
\* window-record construction fails with the surface-sizing error, create_window
\* returns that error and the registry gets no new entry.
C5_ZeroSizeFails ==
    (/\ call.op = "resumed"
     /\ done.size # <<>>
     /\ (done.size[1] = 0 \/ done.size[2] = 0)) =>
        /\ done.create = "ErrSize"
        /\ windows = pre.windows

\* A window of nonzero width and zero height was refused.
C5_Witness ==
    /\ call.op = "resumed"
    /\ done.size = <<1, 0>>
    /\ done.create = "ErrSize"

\* C6: while the registry holds a window record the drawing context is present,
\* and the context is released only with the registry empty.
C6_ContextOutlivesWindows ==
    /\ DOMAIN windows # {} => context
    /\ \A i \in 1..Len(released) : released[i] = 0

\* The context was released by on_exit, after a window had been registered and
\* removed.
C6_Witness ==
    /\ call.op = "exiting"
    /\ ~context
    /\ released = <<0>>
    /\ scenario = "exited"

\* C7: in the run construct, resume, close the single window, idle check, exit,
\* the registry has exactly one entry after resume, the idle check after the
\* close requests termination, and the context goes from present to absent
\* exactly once, after the last window record was removed.
C7_ScenarioOne ==
    /\ (scenario = "resumed" /\ ~aborted) => Cardinality(DOMAIN windows) = 1
    /\ scenario = "closed" => DOMAIN windows = {}
    /\ scenario = "idle" => (done.exit /\ exitRequested /\ loop = "Exiting")
    /\ scenario \in {"constructed", "resumed", "closed", "idle"} =>
           (context /\ released = <<>>)
    /\ scenario = "exited" =>
           (~context /\ released = <<0>> /\ DOMAIN windows = {}
            /\ loop = "Terminated" /\ ~aborted)

\* The whole run was taken.
C7_Witness ==
    /\ scenario = "exited"
    /\ loop = "Terminated"
    /\ call.op = "exiting"

\* C8: create_window returns an error, without aborting the process, both when
\* the windowing collaborator cannot construct the window and when disabling
\* hit-testing fails, and inserts no registry entry.
C8_CreateFailuresReturnError ==
    (call.op = "resumed" /\ (~call.env.create \/ ~call.env.hittest)) =>
        /\ done.create \in ErrKinds
        /\ windows = pre.windows

\* C9: a failed draw on a redraw-requested event for a registered window is only
\* logged: the record stays, no exit is requested, the process does not abort,
\* and a later redraw-requested event for the same window invokes draw again.
C9_DrawFailureOnlyLogged ==
    (IsWindowEvent("RedrawRequested") /\ call.id \in DOMAIN pre.windows) =>
        /\ done.draw # <<>>
        /\ done.drawRes # "Ok" => (done.log = "error" /\ ControllerUntouched)

\* A redraw of a window whose previous draw had failed: draw ran, and failed
\* again.
C9_Witness ==
    /\ IsWindowEvent("RedrawRequested")
    /\ call.id \in pre.drawFailed
    /\ done.draw # <<>>
    /\ done.drawRes = "ErrPresent"
    /\ call.id \in DOMAIN windows

\* C10, as stated: once termination has been requested, no window record is
\* ever added to the registry, whatever is delivered to the controller later.
C10_NoWindowAfterExitRequested ==
    pre.exitRequested => (DOMAIN windows) \subseteq (DOMAIN pre.windows)

\* C10, amended: once termination has been requested, no window event, user
\* event, device event, idle check or on_exit adds a window record, and neither
\* does a resume delivered after on_exit released the context.
C10_NoWindowAfterExitButResume ==
    (pre.exitRequested /\ (call.op # "resumed" \/ ~pre.context))
        => (DOMAIN windows) \subseteq (DOMAIN pre.windows)

\* A resume was delivered after the exit request and after on_exit: it aborted
\* at the context lookup and registered nothing.
C10_Witness ==
    /\ call.op = "resumed"
    /\ pre.exitRequested
    /\ ~pre.context
    /\ done.create = "PanicContext"
    /\ windows = pre.windows

\* C11: with two windows registered, a close-requested event for one of them
\* leaves exactly the other entry, unchanged, and a redraw-requested event for
\* the surviving window still invokes its draw operation.
C11_CloseLeavesOtherWindow ==
    /\ (/\ IsWindowEvent("CloseRequested")
        /\ call.id \in DOMAIN pre.windows
        /\ Cardinality(DOMAIN pre.windows) = 2) =>
           /\ Cardinality(DOMAIN windows) = 1
           /\ \A k \in (DOMAIN pre.windows) \ {call.id} :
                  /\ k \in DOMAIN windows
                  /\ windows[k] = pre.windows[k]
                  /\ (k \in drawFailed) <=> (k \in pre.drawFailed)
    /\ (/\ IsWindowEvent("RedrawRequested")
        /\ pre.removed # {}
        /\ call.id \in DOMAIN pre.windows) =>
           /\ done.draw # <<>>
           /\ done.drawRes = (IF ~call.env.buffer THEN "ErrBuffer"
                              ELSE IF ~call.env.present THEN "ErrPresent"
                              ELSE "Ok")
           /\ windows = pre.windows

\* Directly after the close that removed one of two windows, the surviving
\* window was redrawn, with success.
C11_Witness ==
    /\ IsWindowEvent("RedrawRequested")
    /\ pre.removed # {}
    /\ call.id \in DOMAIN windows
    /\ Cardinality(DOMAIN windows) = 1
    /\ done.drawRes = "Ok"

\* C12: a WakeUp delivered at any point of any interleaving leaves the registry,
\* the context and the exit status unchanged and does not fail, and an idle
\* check that follows a WakeUp delivered with the registry empty requests exit.
C12_WakeUpChangesNothing ==
    /\ call.op = "user_event" => ControllerUntouched
    /\ (call.op = "about_to_wait" /\ pre.woken /\ DOMAIN pre.windows = {}) =>
           (done.exit /\ exitRequested /\ ~aborted)

\* The idle check that followed a WakeUp delivered with no window registered.
C12_Witness ==
    /\ call.op = "about_to_wait"
    /\ pre.woken
    /\ DOMAIN pre.windows = {}
    /\ done.exit
    /\ exitRequested

\* C13: resumed either leaves the initial window registered or ends the
\* process: after a failed create_window the controller does not go on.
C13_ResumeRegistersOrAborts ==
    call.op = "resumed" =>
        /\ done.create # "none"
        /\ done.create = "Ok" =>
               (~aborted /\ done.newId \in DOMAIN windows
                /\ done.newId \notin DOMAIN pre.windows)
        /\ done.create # "Ok" => (aborted /\ windows = pre.windows)

\* The first resume failed, with the windowing collaborator's error, and the
\* process ended with the registry empty.
C13_Witness ==
    /\ call.op = "resumed"
    /\ done.create = "ErrOs"
    /\ DOMAIN windows = {}
    /\ aborted

\* C14: only the idle check requests loop termination; wherever exit has been
\* requested, the registry was empty at the moment of the request.
C14_OnlyIdleCheckRequestsExit ==
    /\ (done.exit \/ exitRequested # pre.exitRequested) =>
           (call.op = "about_to_wait" /\ DOMAIN pre.windows = {})
    /\ exitRequested <=> (exitSizes = {0})
    /\ ~exitRequested => exitSizes = {}

\* The last window was closed and exit is not requested yet.
C14_Witness ==
    /\ IsWindowEvent("CloseRequested")
    /\ call.id \in DOMAIN pre.windows
    /\ DOMAIN windows = {}
    /\ ~exitRequested
    /\ ~done.exit

\* C15: the set of registered ids changes only by a successful create_window
\* adding one id and by a close-requested event for a registered id removing
\* that id; every other callback leaves the registry unchanged.
C15_RegistryChangesOnlyByCreateAndClose ==
    LET created == call.op = "resumed" /\ done.create = "Ok"
        closed == IsWindowEvent("CloseRequested") /\ call.id \in DOMAIN pre.windows
    IN  /\ created => DOMAIN windows = (DOMAIN pre.windows) \cup {done.newId}
        /\ closed => DOMAIN windows = (DOMAIN pre.windows) \ {call.id}
        /\ (~created /\ ~closed) => windows = pre.windows

\* A failed redraw of a registered window left the registry as it was.
C15_Witness ==
    /\ IsWindowEvent("RedrawRequested")
    /\ call.id \in DOMAIN pre.windows
    /\ done.drawRes = "ErrBuffer"
    /\ windows = pre.windows

\* C16: with the idle check run after every pass and on_exit called once exit
\* is requested, if every registered window is eventually closed then the
\* program, once it has a window, eventually reaches Terminated: exit requested
\* and the context released.
C16_ClosedWindowsLeadToTermination ==
    (\A w \in WindowIds : (w \in DOMAIN windows) ~> (w \notin DOMAIN windows))
        => ((DOMAIN windows # {})
                ~> (exitRequested /\ ~context /\ loop = "Terminated"))

\* Terminated after a run in which the window was closed among other events.
C16_Witness ==
    /\ loop = "Terminated"
    /\ exitRequested
    /\ ~context
    /\ removed = {}
    /\ exitSizes = {0}
    /\ scenario = "off"

SurfaceBeforeWindow(log) ==
    \A i, j \in 1..Len(log) :
        (log[i] = "surface" /\ log[j] = "window") => i < j

\* C17: wherever a window record, or a partly built one, is released (the removal
\* on close-requested, the construction that fails on a zero dimension), the
\* surface is released before the window handle it was bound to.
C17_SurfaceReleasedBeforeWindow ==
    /\ SurfaceBeforeWindow(done.drops)
    /\ (IsWindowEvent("CloseRequested") /\ call.id \in DOMAIN pre.windows) =>
           done.drops = <<"surface", "window">>
    /\ (call.op = "resumed" /\ done.create = "ErrSize") =>
           done.drops = <<"surface", "window">>
    /\ (call.op = "resumed" /\ done.create = "Ok") => done.drops = <<>>

\* A registered window was closed and its record released.
C17_Witness ==
    /\ IsWindowEvent("CloseRequested")
    /\ call.id \in DOMAIN pre.windows
    /\ call.id \notin DOMAIN windows
    /\ done.drops = <<"surface", "window">>

\* C18: draw acquires the buffer, notifies the window, then presents, each step
\* at most once; a failed acquisition skips the notification and the present
\* and is returned, and a rejected present is returned.
C18_DrawStepsInOrder ==
    (IsWindowEvent("RedrawRequested") /\ call.id \in DOMAIN pre.windows) =>
        /\ ~call.env.buffer =>
               (done.draw = <<"buffer_mut">> /\ done.drawRes = "ErrBuffer")
        /\ call.env.buffer =>
               /\ done.draw = <<"buffer_mut", "pre_present_notify", "present">>
               /\ done.drawRes = (IF call.env.present THEN "Ok" ELSE "ErrPresent")

\* The buffer could not be acquired: nothing was notified or presented.
C18_Witness ==
    /\ IsWindowEvent("RedrawRequested")
    /\ call.id \in DOMAIN pre.windows
    /\ ~call.env.buffer
    /\ done.draw = <<"buffer_mut">>
    /\ done.drawRes = "ErrBuffer"

\* C19: with both dimensions nonzero and the resize call failing, construction
\* still succeeds: the error is discarded, create_window returns the new id and
\* the record is registered exactly as if the resize had succeeded.
C19_ResizeErrorDiscarded ==
    (/\ call.op = "resumed"
     /\ call.env.create /\ call.env.hittest /\ call.env.surface /\ pre.context
     /\ call.env.width # 0 /\ call.env.height # 0
     /\ ~call.env.resize) =>
        /\ done.create = "Ok"
        /\ done.resize = "Err"
        /\ done.newId = call.env.id
        /\ ~aborted
        /\ windows = [k \in (DOMAIN pre.windows) \cup {call.env.id} |->
                        IF k = call.env.id
                        THEN [window |-> call.env.id, surface |-> call.env.id]
                        ELSE pre.windows[k]]

\* A window was registered although resizing its surface had failed.
C19_Witness ==
    /\ call.op = "resumed"
    /\ ~call.env.resize
    /\ done.resize = "Err"
    /\ done.create = "Ok"
    /\ done.newId \in DOMAIN windows

\* C20: no window record is inserted while the drawing context is absent: a
\* create_window that reaches window-record construction after the context was
\* released aborts the process at the context lookup, with the native window
\* created and nothing inserted.
C20_NoInsertWithoutContext ==
    /\ ~pre.context => (DOMAIN windows) \subseteq (DOMAIN pre.windows)
    /\ (/\ call.op = "resumed" /\ ~pre.context
        /\ call.env.create /\ call.env.hittest) =>
           /\ done.create = "PanicContext"
           /\ done.native
           /\ done.size = <<>>
           /\ aborted

\* A resume delivered after on_exit, for a window that would have been bound
\* and sized without error.
C20_Witness ==
    /\ call.op = "resumed"
    /\ ~pre.context
    /\ released # <<>>
    /\ call.env.create /\ call.env.hittest /\ call.env.surface
    /\ call.env.width # 0 /\ call.env.height # 0
    /\ done.create = "PanicContext"
    /\ done.native
    /\ aborted

====
